---- MODULE Spec2Model ----
(***************************************************************************)
(* Session lifecycle of app/speaker_api.py: the module globals             *)
(* speaker_instance, bose_auth and preset, and the request handlers that   *)
(* read and write them.  Handlers are coroutines on one event loop: the    *)
(* code between two awaits runs atomically, and a handler suspended in an  *)
(* await interleaves with every other handler.  Each action below is one   *)
(* such atomic stretch of one handler.                                     *)
(***************************************************************************)
EXTENDS Integers, FiniteSets, Sequences, TLC

\* Number of request slots served concurrently by the event loop.
MaxReqs == 2
\* Number of BoseSpeaker objects constructed in one behaviour.
MaxClients == 2
\* Number of requests that arrive in one behaviour.
MaxStarted == 4

None == 0
Reqs == 1..MaxReqs
Clients == 1..MaxClients

\* The device endpoints all have one of two shapes: the check and one awaited
\* call (get_power_state, get_audio_volume, ...), or the check and two
\* awaited calls with no check between them (get_playback_status, and the
\* two set_audio_volume_up handlers).  One endpoint of each shape is modelled.
SingleCall == {"get_power_state"}
DoubleCall == {"get_playback_status"}
DeviceEndpoints == SingleCall \cup DoubleCall

VARIABLES
    speaker_instance,  \* global: None or the BoseSpeaker object
    bose_auth,         \* global BoseAuth: "none", "valid" or "expired" token
    preset,            \* global: None or the product settings of a client
    client,            \* state of each BoseSpeaker object
    nextClient,        \* identity of the next object to be constructed
    req,               \* the request slots: handler position, locals, history
    started,           \* number of requests that have arrived
    refreshFailed,     \* history: a refresh failed and no initialize succeeded since
    disconnected       \* history: a disconnect succeeded and no initialize succeeded since

\* Arguments and results of the pure functions of the module, applied outside
\* any session in SpecMatcher and SpecStatus.
VARIABLES
    now_playing,       \* a now-playing snapshot as returned by get_now_playing()
    presets_data,      \* a product-settings document as cached in preset
    power,             \* a power record as returned by get_power_state()
    presetNo,          \* the preset number of a POST /playback/preset body
    returned           \* the values the function returned, one per call

pvars == <<now_playing, presets_data, power, presetNo, returned>>

vars == <<speaker_instance, bose_auth, preset, client, nextClient, req, started,
          refreshFailed, disconnected, now_playing, presets_data, power, presetNo,
          returned>>

\* The empty dict {}.
EmptyDict == [k \in {} |-> k]

IdleReq ==
    [pc |-> "idle", ep |-> "none", resp |-> "none",
     mine |-> None,         \* initialize: the client this request constructed
     checked |-> None,      \* speaker_instance as seen by check_speaker_initialized
     nValid |-> 0,          \* is_token_valid() calls of this request
     nRefresh |-> 0,        \* do_token_refresh() calls of this request
     refresh |-> "none",    \* outcome of this request's refresh
     nCalls |-> 0,          \* device calls issued by this request
     target |-> None,       \* client of the call in flight (or the last one)
     fetch |-> "none"]      \* initialize: outcome of get_product_settings

is_token_valid(auth) == auth = "valid"

Init ==
    /\ speaker_instance = None
    /\ bose_auth = "none"
    /\ preset = None
    /\ client = [c \in Clients |-> "unused"]
    /\ nextClient = 1
    /\ req = [r \in Reqs |-> IdleReq]
    /\ started = 0
    /\ refreshFailed = FALSE
    /\ disconnected = FALSE
    /\ now_playing = EmptyDict
    /\ presets_data = EmptyDict
    /\ power = EmptyDict
    /\ presetNo = 1
    /\ returned = <<>>

\* The handler returns or raises: its locals are gone, the response and the
\* record of what the request did remain until the response is sent.
Finish(r, response) ==
    [req EXCEPT ![r].pc = "done", ![r].resp = response,
                ![r].mine = None, ![r].checked = None, ![r].target = None]

(***************************************************************************)
(* check_speaker_initialized(): si is the global speaker_instance, auth    *)
(* the token state, rok whether do_token_refresh() succeeds if called.     *)
(* The result tells whether the helper returns ("pass") or raises, what    *)
(* it left in bose_auth, and the AuthProvider calls it made.               *)
(***************************************************************************)
check_tokenFirst(si, auth, rok) ==
    IF is_token_valid(auth)
    THEN [out |-> IF si = None THEN "SpeakerNotInitialized" ELSE "pass",
          auth |-> auth, nValid |-> 1, nRefresh |-> 0, refresh |-> "none"]
    ELSE IF rok
    THEN [out |-> IF si = None THEN "SpeakerNotInitialized" ELSE "pass",
          auth |-> "valid", nValid |-> 1, nRefresh |-> 1, refresh |-> "ok"]
    ELSE [out |-> "AuthError",
          auth |-> auth, nValid |-> 1, nRefresh |-> 1, refresh |-> "fail"]

check_swallowRefreshError(si, auth, rok) ==
    IF si = None
    THEN [out |-> "SpeakerNotInitialized",
          auth |-> auth, nValid |-> 0, nRefresh |-> 0, refresh |-> "none"]
    ELSE IF is_token_valid(auth)
    THEN [out |-> "pass",
          auth |-> auth, nValid |-> 1, nRefresh |-> 0, refresh |-> "none"]
    ELSE [out |-> "pass",
          auth |-> IF rok THEN "valid" ELSE auth, nValid |-> 1, nRefresh |-> 1,
          refresh |-> IF rok THEN "ok" ELSE "fail"]

check_speaker_initialized(si, auth, rok) ==
    IF si = None
    THEN [out |-> "SpeakerNotInitialized",
          auth |-> auth, nValid |-> 0, nRefresh |-> 0, refresh |-> "none"]
    ELSE IF is_token_valid(auth)
    THEN [out |-> "pass",
          auth |-> auth, nValid |-> 1, nRefresh |-> 0, refresh |-> "none"]
    ELSE IF rok
    THEN [out |-> "pass",
          auth |-> "valid", nValid |-> 1, nRefresh |-> 1, refresh |-> "ok"]
    ELSE [out |-> "AuthError",
          auth |-> auth, nValid |-> 1, nRefresh |-> 1, refresh |-> "fail"]

(***************************************************************************)
(* A handler that resumes after an await reads the global speaker_instance *)
(* again: `speaker_instance.get_now_playing()` is evaluated at that time.  *)
(***************************************************************************)
captured_instance(r) == req[r].checked

resumed_instance(r) == speaker_instance

\* The request starts a device call on client c: its locals and history.
IssueCall(rec, c) ==
    [rec EXCEPT !.target = c, !.nCalls = @ + 1]

(***************************************************************************)
(* POST /initialize                                                        *)
(***************************************************************************)
\* (as initialize_speaker_auth, with the client constructed before the login)
initialize_constructsFirst(r) ==
    /\ UNCHANGED pvars
    /\ req[r].pc = "idle"
    /\ started < MaxStarted
    /\ started' = started + 1
    /\ nextClient <= MaxClients
    /\ speaker_instance' = nextClient
    /\ nextClient' = nextClient + 1
    /\ \E tokenOk \in BOOLEAN :
         IF ~tokenOk
         THEN /\ req' = [req EXCEPT ![r] =
                    [IdleReq EXCEPT !.pc = "done", !.ep = "initialize_speaker",
                                    !.resp = "InitializationError"]]
              /\ UNCHANGED <<bose_auth, client>>
         ELSE /\ bose_auth' = "valid"
              /\ client' = [client EXCEPT ![nextClient] = "connecting"]
              /\ req' = [req EXCEPT ![r] =
                    [IdleReq EXCEPT !.pc = "init_connect", !.ep = "initialize_speaker",
                                    !.mine = nextClient, !.target = nextClient]]
    /\ UNCHANGED <<preset, refreshFailed, disconnected>>

\* Variant of initialize_speaker that keeps an existing session instead of
\* replacing it: the global is assigned only when it is None.
initialize_keepsExisting(r) ==
    /\ UNCHANGED pvars
    /\ req[r].pc = "idle"
    /\ started < MaxStarted
    /\ started' = started + 1
    /\ nextClient <= MaxClients
    /\ \E tokenOk \in BOOLEAN :
         IF ~tokenOk
         THEN /\ req' = [req EXCEPT ![r] =
                    [IdleReq EXCEPT !.pc = "done", !.ep = "initialize_speaker",
                                    !.resp = "InitializationError"]]
              /\ UNCHANGED <<speaker_instance, bose_auth, client, nextClient>>
         ELSE /\ bose_auth' = "valid"
              /\ speaker_instance' =
                    IF speaker_instance = None THEN nextClient ELSE speaker_instance
              /\ client' = [client EXCEPT ![nextClient] = "connecting"]
              /\ nextClient' = nextClient + 1
              /\ req' = [req EXCEPT ![r] =
                    [IdleReq EXCEPT !.pc = "init_connect", !.ep = "initialize_speaker",
                                    !.mine = nextClient, !.target = nextClient]]
    /\ UNCHANGED <<preset, refreshFailed, disconnected>>

\* getControlToken, BoseSpeaker(...), and the call of connect().
initialize_speaker_auth(r) ==
    /\ UNCHANGED pvars
    /\ req[r].pc = "idle"
    /\ started < MaxStarted
    /\ started' = started + 1
    /\ nextClient <= MaxClients
    /\ \E tokenOk \in BOOLEAN :
         IF ~tokenOk
         THEN /\ req' = [req EXCEPT ![r] =
                    [IdleReq EXCEPT !.pc = "done", !.ep = "initialize_speaker",
                                    !.resp = "InitializationError"]]
              /\ UNCHANGED <<speaker_instance, bose_auth, client, nextClient>>
         ELSE /\ bose_auth' = "valid"
              /\ speaker_instance' = nextClient
              /\ client' = [client EXCEPT ![nextClient] = "connecting"]
              /\ nextClient' = nextClient + 1
              /\ req' = [req EXCEPT ![r] =
                    [IdleReq EXCEPT !.pc = "init_connect", !.ep = "initialize_speaker",
                                    !.mine = nextClient, !.target = nextClient]]
    /\ UNCHANGED <<preset, refreshFailed, disconnected>>

\* connect() returns or raises; on return get_product_settings() is called
\* on whatever speaker_instance refers to now.
initialize_speaker_connect(r) ==
    /\ UNCHANGED pvars
    /\ req[r].pc = "init_connect"
    /\ \E ok \in BOOLEAN :
         LET c == req[r].target
             si == speaker_instance
         IN  /\ client' = IF client[c] = "connecting"
                          THEN [client EXCEPT ![c] = IF ok THEN "connected" ELSE "failed"]
                          ELSE client
             /\ req' = IF ~ok THEN Finish(r, "InitializationError")
                       ELSE IF si = None THEN Finish(r, "InitializationError")
                       ELSE [req EXCEPT ![r].pc = "init_settings", ![r].target = si]
    /\ UNCHANGED <<speaker_instance, bose_auth, preset, nextClient, started, refreshFailed, disconnected>>

\* get_product_settings() returns or raises; on return preset is assigned
\* and the response is built from speaker_instance.get_device_id().
initialize_speaker_settings(r) ==
    /\ UNCHANGED pvars
    /\ req[r].pc = "init_settings"
    /\ \E ok \in BOOLEAN :
         IF ~ok
         THEN /\ req' = [Finish(r, "InitializationError") EXCEPT ![r].fetch = "fail"]
              /\ UNCHANGED <<preset, refreshFailed, disconnected>>
         ELSE /\ preset' = req[r].target
              /\ IF speaker_instance = None
                 THEN /\ req' = [Finish(r, "InitializationError") EXCEPT ![r].fetch = "ok"]
                      /\ UNCHANGED <<refreshFailed, disconnected>>
                 ELSE /\ req' = [Finish(r, "connected") EXCEPT ![r].fetch = "ok"]
                      /\ refreshFailed' = FALSE
                      /\ disconnected' = FALSE
    /\ UNCHANGED <<speaker_instance, bose_auth, client, nextClient, started>>

(***************************************************************************)
(* POST /disconnect                                                        *)
(***************************************************************************)
disconnect_clearsPreset(r) ==
    /\ UNCHANGED pvars
    /\ req[r].pc = "idle"
    /\ started < MaxStarted
    /\ started' = started + 1
    /\ preset' = None
    /\ IF ~(speaker_instance # None)
       THEN req' = [req EXCEPT ![r] =
                [IdleReq EXCEPT !.pc = "done", !.ep = "disconnect_speaker",
                                !.resp = "SpeakerNotInitialized"]]
       ELSE req' = [req EXCEPT ![r] =
                [IdleReq EXCEPT !.pc = "disc_await", !.ep = "disconnect_speaker",
                                !.target = speaker_instance]]
    /\ UNCHANGED <<speaker_instance, bose_auth, client, nextClient, refreshFailed, disconnected>>

\* The guard, and the call of speaker_instance.disconnect().
disconnect_speaker_begin(r) ==
    /\ UNCHANGED pvars
    /\ req[r].pc = "idle"
    /\ started < MaxStarted
    /\ started' = started + 1
    /\ IF ~(speaker_instance # None)
       THEN req' = [req EXCEPT ![r] =
                [IdleReq EXCEPT !.pc = "done", !.ep = "disconnect_speaker",
                                !.resp = "SpeakerNotInitialized"]]
       ELSE req' = [req EXCEPT ![r] =
                [IdleReq EXCEPT !.pc = "disc_await", !.ep = "disconnect_speaker",
                                !.target = speaker_instance]]
    /\ UNCHANGED <<speaker_instance, bose_auth, preset, client, nextClient, refreshFailed, disconnected>>

\* disconnect() returns (the global is cleared) or raises (it is not).  A
\* teardown that raised may or may not have closed the connection.
disconnect_speaker_end(r) ==
    /\ UNCHANGED pvars
    /\ req[r].pc = "disc_await"
    /\ \E ok \in BOOLEAN :
         IF ok
         THEN /\ speaker_instance' = None
              /\ client' = [client EXCEPT ![req[r].target] = "closed"]
              /\ req' = Finish(r, "disconnected")
              /\ disconnected' = TRUE
         ELSE /\ UNCHANGED <<speaker_instance, disconnected>>
              /\ \E closed \in BOOLEAN :
                   client' = IF closed THEN [client EXCEPT ![req[r].target] = "closed"]
                             ELSE client
              /\ req' = Finish(r, "DisconnectionError")
    /\ UNCHANGED <<bose_auth, preset, nextClient, started, refreshFailed>>

(***************************************************************************)
(* The device endpoints: check_speaker_initialized(), then one or two      *)
(* awaited calls on speaker_instance.                                      *)
(***************************************************************************)
device_endpoint_begin(r, ep) ==
    /\ UNCHANGED pvars
    /\ req[r].pc = "idle"
    /\ started < MaxStarted
    /\ started' = started + 1
    /\ \E rok \in BOOLEAN :
         LET chk == check_speaker_initialized(speaker_instance, bose_auth, rok)
             rec == [IdleReq EXCEPT !.ep = ep,
                        !.checked = speaker_instance,
                        !.nValid = chk.nValid, !.nRefresh = chk.nRefresh,
                        !.refresh = chk.refresh]
         IN  /\ bose_auth' = chk.auth
             /\ refreshFailed' = (refreshFailed \/ chk.refresh = "fail")
             /\ req' = IF chk.out # "pass"
                       THEN [req EXCEPT ![r] = [rec EXCEPT !.pc = "done", !.resp = chk.out,
                                                           !.checked = None]]
                       ELSE IF speaker_instance = None
                       THEN [req EXCEPT ![r] = [rec EXCEPT !.pc = "done",
                                                           !.resp = "AttributeError"]]
                       ELSE [req EXCEPT ![r] =
                                [IssueCall(rec, speaker_instance) EXCEPT
                                    !.pc = "dev_call1"]]
    /\ UNCHANGED <<speaker_instance, preset, client, nextClient, disconnected>>

\* Variant of the single-call endpoint that stores the result of its call in
\* the preset cache, as a refetch of the product settings would.
device_endpoint_cachesResult(r) ==
    /\ UNCHANGED pvars
    /\ req[r].pc = "dev_call1"
    /\ \E ok \in BOOLEAN :
         /\ req' = IF ~ok THEN Finish(r, "DeviceError")
                   ELSE IF req[r].ep \in SingleCall THEN Finish(r, "ok")
                   ELSE IF resumed_instance(r) = None THEN Finish(r, "AttributeError")
                   ELSE [req EXCEPT ![r] =
                           [IssueCall(req[r], resumed_instance(r)) EXCEPT !.pc = "dev_call2"]]
         /\ preset' = IF ok /\ req[r].ep \in SingleCall THEN req[r].target ELSE preset
    /\ UNCHANGED <<speaker_instance, bose_auth, client, nextClient, started, refreshFailed, disconnected>>

\* The first call returns or raises; a two-call endpoint then issues its
\* second call on speaker_instance without another check.
device_endpoint_first(r) ==
    /\ UNCHANGED pvars
    /\ req[r].pc = "dev_call1"
    /\ \E ok \in BOOLEAN :
         req' = IF ~ok THEN Finish(r, "DeviceError")
                ELSE IF req[r].ep \in SingleCall THEN Finish(r, "ok")
                ELSE IF resumed_instance(r) = None THEN Finish(r, "AttributeError")
                ELSE [req EXCEPT ![r] =
                        [IssueCall(req[r], resumed_instance(r)) EXCEPT !.pc = "dev_call2"]]
    /\ UNCHANGED <<speaker_instance, bose_auth, preset, client, nextClient, started, refreshFailed, disconnected>>

device_endpoint_second(r) ==
    /\ UNCHANGED pvars
    /\ req[r].pc = "dev_call2"
    /\ \E ok \in BOOLEAN :
         req' = IF ok THEN Finish(r, "ok") ELSE Finish(r, "DeviceError")
    /\ UNCHANGED <<speaker_instance, bose_auth, preset, client, nextClient, started, refreshFailed, disconnected>>

(***************************************************************************)
(* Environment: the token's validity window ends; the framework sends the  *)
(* response of a finished handler and the slot takes the next request.     *)
(***************************************************************************)
token_expires ==
    /\ UNCHANGED pvars
    /\ bose_auth = "valid"
    /\ bose_auth' = "expired"
    /\ UNCHANGED <<speaker_instance, preset, client, nextClient, req, started, refreshFailed, disconnected>>

respond(r) ==
    /\ UNCHANGED pvars
    /\ req[r].pc = "done"
    /\ req' = [req EXCEPT ![r] = IdleReq]
    /\ UNCHANGED <<speaker_instance, bose_auth, preset, client, nextClient, started, refreshFailed, disconnected>>

Next ==
    \/ \E r \in Reqs : initialize_speaker_auth(r)
    \/ \E r \in Reqs : initialize_speaker_connect(r)
    \/ \E r \in Reqs : initialize_speaker_settings(r)
    \/ \E r \in Reqs : disconnect_speaker_begin(r)
    \/ \E r \in Reqs : disconnect_speaker_end(r)
    \/ \E r \in Reqs : \E ep \in DeviceEndpoints : device_endpoint_begin(r, ep)
    \/ \E r \in Reqs : device_endpoint_first(r)
    \/ \E r \in Reqs : device_endpoint_second(r)
    \/ \E r \in Reqs : respond(r)
    \/ token_expires

Spec == Init /\ [][Next]_vars

TypeOK ==
    /\ speaker_instance \in {None} \cup Clients
    /\ bose_auth \in {"none", "valid", "expired"}
    /\ preset \in {None} \cup Clients
    /\ client \in [Clients -> {"unused", "connecting", "connected", "failed", "closed"}]
    /\ nextClient \in 1..(MaxClients + 1)
    /\ started \in 0..MaxStarted
    /\ refreshFailed \in BOOLEAN
    /\ disconnected \in BOOLEAN
    /\ \A r \in Reqs : req[r].nCalls \in 0..2 /\ req[r].nRefresh \in 0..1

(***************************************************************************)
(* Steps of a request, as seen from one transition.                        *)
(***************************************************************************)
\* Request r arrives at a device endpoint in this step.
DeviceArrives(r) == req[r].pc = "idle" /\ req'[r].ep \in DeviceEndpoints
\* Request r arrives at POST /disconnect in this step.
DisconnectArrives(r) == req[r].pc = "idle" /\ req'[r].ep = "disconnect_speaker"
\* Request r starts a device call in this step.
IssuesCall(r) == req'[r].nCalls = req[r].nCalls + 1
\* Request r, suspended in its first device call, resumes with the call's result.
ResumesAfterFirst(r) ==
    /\ req[r].pc = "dev_call1" /\ req[r].ep \in DoubleCall
    /\ req'[r].pc # "dev_call1" /\ req'[r].resp # "DeviceError"

\* C1: whenever speaker_instance is set and the credential is valid (so that
\* check_speaker_initialized lets a device call through), the referenced
\* client has completed connect() and has not been disconnected.
C1_ReadyHasOpenClient ==
    (speaker_instance # None /\ is_token_valid(bose_auth))
        => client[speaker_instance] = "connected"

\* C2: a device call is issued on a client only when that client is
\* connected: after its connect() succeeded and before any disconnect of it.
C2_CallsOnlyWhenReady ==
    [][\A r \in Reqs : IssuesCall(r) => client[req'[r].target] = "connected"]_vars

\* C3: whenever a disconnect of an existing session finishes, with the
\* teardown succeeded or raised, the session reference is absent.
C3_DisconnectAlwaysClears ==
    [][\A r \in Reqs : (req[r].pc = "disc_await" /\ req'[r].pc = "done")
            => speaker_instance' = None]_vars

\* C4: when get_product_settings fails during initialize, initialize still
\* returns status connected and the preset cache keeps its value.
C4_PresetFetchBestEffort ==
    [][\A r \in Reqs : (req[r].pc = "init_settings" /\ req'[r].fetch = "fail")
            => (req'[r].resp = "connected" /\ preset' = preset)]_vars

\* C5: a device request that arrives while no session exists fails with
\* SpeakerNotInitialized and makes no validity check, no refresh and no
\* device call.
C5_NoSessionFailsFast ==
    [][\A r \in Reqs : (DeviceArrives(r) /\ speaker_instance = None)
            => /\ req'[r].pc = "done"
               /\ req'[r].resp = "SpeakerNotInitialized"
               /\ req'[r].nValid = 0 /\ req'[r].nRefresh = 0 /\ req'[r].nCalls = 0
               /\ bose_auth' = bose_auth]_vars

\* A device request was refused for want of a session, after a session had
\* been created and disconnected and while the token was expired.
C5_Witness ==
    \E r \in Reqs :
        /\ req[r].ep \in DeviceEndpoints /\ req[r].pc = "done"
        /\ req[r].resp = "SpeakerNotInitialized"
        /\ \E c \in Clients : client[c] = "closed"
        /\ bose_auth = "expired"

\* C6: a device request that finds a session and an expired credential makes
\* exactly one refresh call; if it succeeds the device call is issued in the
\* same step, if it fails the request ends without a device call; with a
\* valid credential there is no refresh; and no later step of the request
\* refreshes again.
C6_OneRefreshPerRequest ==
    [][\A r \in Reqs :
        /\ (DeviceArrives(r) /\ speaker_instance # None)
             => IF is_token_valid(bose_auth)
                THEN /\ req'[r].nRefresh = 0
                     /\ req'[r].pc = "dev_call1" /\ req'[r].nCalls = 1
                ELSE /\ req'[r].nRefresh = 1
                     /\ req'[r].refresh \in {"ok", "fail"}
                     /\ req'[r].refresh = "ok"
                          => /\ req'[r].pc = "dev_call1" /\ req'[r].nCalls = 1
                             /\ is_token_valid(bose_auth')
                     /\ req'[r].refresh = "fail"
                          => /\ req'[r].pc = "done" /\ req'[r].nCalls = 0
                             /\ req'[r].resp = "AuthError"
        /\ (req[r].pc \in {"dev_call1", "dev_call2"})
             => req'[r].nRefresh = req[r].nRefresh]_vars

\* One request refreshed the expired credential once and has gone on to its
\* second device call, while another's refresh failed and it made no call.
C6_Witness ==
    \E r1, r2 \in Reqs :
        /\ req[r1].pc = "dev_call2" /\ req[r1].refresh = "ok"
        /\ req[r1].nRefresh = 1 /\ req[r1].nCalls = 2
        /\ req[r2].pc = "done" /\ req[r2].refresh = "fail"
        /\ req[r2].nRefresh = 1 /\ req[r2].nCalls = 0

\* C7: after a failed refresh, no request that arrives later reaches a
\* device call until an initialize has succeeded.
C7_ReinitAfterRefreshFailure ==
    [][\A r \in Reqs : (DeviceArrives(r) /\ IssuesCall(r)) => ~refreshFailed]_vars

\* C8: every device call, the second one of a two-call handler included, is
\* issued at a moment when the session exists and the credential is valid.
C8_CheckBeforeEveryCall ==
    [][\A r \in Reqs : IssuesCall(r)
            => (speaker_instance' # None /\ is_token_valid(bose_auth'))]_vars

\* C9: a two-call handler that resumes from its first device call uses the
\* session reference as it is then, not as it was checked: the handler fails
\* on an absent handle if disconnect cleared it, and otherwise sends its
\* second call to the current client, whichever it is.
C9_ResumeUsesCurrentReference ==
    [][\A r \in Reqs : ResumesAfterFirst(r)
            => IF speaker_instance = None
               THEN /\ req'[r].pc = "done" /\ req'[r].resp = "AttributeError"
                    /\ req'[r].nCalls = req[r].nCalls
               ELSE /\ req'[r].pc = "dev_call2"
                    /\ req'[r].target = speaker_instance]_vars

\* Torn state: a handler's second call is in flight on a client other than
\* the one its check saw (another initialize replaced the reference).
C9_Witness ==
    \E r \in Reqs :
        /\ req[r].pc = "dev_call2"
        /\ req[r].checked # None /\ req[r].target # req[r].checked

\* Torn state, the other way: a two-call handler passed the check, made its
\* first call and then found the handle absent (disconnect cleared it).
C9_TornCleared ==
    \E r \in Reqs :
        /\ req[r].ep \in DoubleCall /\ req[r].pc = "done"
        /\ req[r].resp = "AttributeError" /\ req[r].nCalls = 1

\* C10: a disconnect that arrives while no session exists returns
\* SpeakerNotInitialized, calls no client disconnect and changes neither the
\* session reference, the credential, the preset cache nor any client.
C10_DisconnectNoSessionNoChange ==
    [][\A r \in Reqs : (DisconnectArrives(r) /\ speaker_instance = None)
            => /\ req'[r].pc = "done"
               /\ req'[r].resp = "SpeakerNotInitialized"
               /\ UNCHANGED <<speaker_instance, bose_auth, preset, client, nextClient>>]_vars

\* A disconnect was refused for want of a session while the preset cache
\* still holds the table of an earlier, disconnected session.
C10_Witness ==
    \E r \in Reqs :
        /\ req[r].ep = "disconnect_speaker" /\ req[r].pc = "done"
        /\ req[r].resp = "SpeakerNotInitialized"
        /\ preset # None /\ speaker_instance = None

\* Request r arrives at POST /initialize in this step.
InitializeArrives(r) == req[r].pc = "idle" /\ req'[r].ep = "initialize_speaker"

\* C11: an initialize whose credential acquisition fails ends with an error
\* without constructing or connecting a client and leaves the session
\* reference, the clients and the preset cache as they were; an initialize
\* whose connect() fails ends with an error response, never with connected.
C11_InitializeFailures ==
    [][\A r \in Reqs :
        /\ (InitializeArrives(r) /\ req'[r].pc = "done")
             => /\ req'[r].resp = "InitializationError"
                /\ UNCHANGED <<speaker_instance, preset, client, nextClient>>
        /\ (req[r].pc = "init_connect" /\ client'[req[r].mine] = "failed")
             => /\ req'[r].pc = "done"
                /\ req'[r].resp = "InitializationError"
                /\ preset' = preset]_vars

\* An initialize failed at the login while the session of an earlier
\* initialize (client 1, connected, table cached) is still in place and no
\* second client was constructed.
C11_Witness ==
    \E r \in Reqs :
        /\ req[r].ep = "initialize_speaker" /\ req[r].pc = "done"
        /\ req[r].resp = "InitializationError" /\ req[r].fetch = "none"
        /\ speaker_instance = 1 /\ client[1] = "connected" /\ preset = 1
        /\ nextClient = 2

\* C12: after a successful disconnect, every device endpoint that arrives
\* before an initialize has succeeded again is answered with
\* "SpeakerNotInitialized".
C12_DisconnectedUntilInitialized ==
    [][\A r \in Reqs :
        (disconnected /\ DeviceArrives(r))
            => /\ req'[r].pc = "done"
               /\ req'[r].resp = "SpeakerNotInitialized"]_vars

InitializeStep(r) ==
    \/ InitializeArrives(r)
    \/ req[r].pc \in {"init_connect", "init_settings"} /\ req'[r] # req[r]

\* C13: a re-initialize replaces the session. Every device request that
\* starts and issues a call sends it to the most recently constructed client,
\* never to a replaced one; when an initialize returns success the global does
\* not refer to a client older than the one it built; and no step of
\* initialize changes the state of any client other than the one it built
\* (the replaced client is discarded, never disconnected).
C13_ReinitializeReplaces ==
    [][\A r \in Reqs :
        /\ (DeviceArrives(r) /\ IssuesCall(r))
             => /\ req'[r].target = nextClient - 1
                /\ req'[r].target = speaker_instance
        /\ (req[r].pc = "init_settings" /\ req'[r].resp = "connected")
             => /\ speaker_instance' # None
                /\ speaker_instance' >= req[r].mine
        /\ InitializeStep(r)
             => \A c \in Clients :
                  (c # req[r].mine /\ c # req'[r].mine) => client'[c] = client[c]]_vars

\* The first client is still open and discarded while the second session is
\* ready and a device call is in flight on the second client.
C13_Witness ==
    \E r \in Reqs :
        /\ req[r].ep \in DeviceEndpoints /\ req[r].pc = "dev_call1"
        /\ req[r].target = 2
        /\ speaker_instance = 2 /\ preset = 2
        /\ client[1] = "connected" /\ client[2] = "connected"

(***************************************************************************)
(* find_current_preset.  A dict is a function on its keys; the preset      *)
(* table, whose iteration order matters, is the sequence of its            *)
(* (key, value) pairs in insertion order, as presets.items() yields them.  *)
(***************************************************************************)

\* Number of presets in a table.
MaxPresets == 2
\* Number of actions in a table, over all its presets.
MaxActions == 3
\* Number of calls on the same arguments.
MaxCalls == 2

\* The value None where a string is expected.
NoneValue == "None"

\* d.get(k, default)
Get(d, k, default) == IF k \in DOMAIN d THEN d[k] ELSE default

\* int(s) for the decimal strings that are preset keys.
Digits == <<"1", "2", "3", "4", "5", "6", "7", "8", "9">>
int(s) == CHOOSE n \in DOMAIN Digits : Digits[n] = s

\* Variant of the account filter that appends every action, whatever its
\* account.
RECURSIVE MatchingActions_anyAccount(_, _, _)
MatchingActions_anyAccount(preset_number, actions, np_account) ==
    IF actions = <<>> THEN <<>>
    ELSE LET content_item ==
                 Get(Get(Head(actions), "payload", EmptyDict), "contentItem", EmptyDict)
         IN  <<[number |-> int(preset_number), content_item |-> content_item]>>
                 \o MatchingActions_anyAccount(preset_number, Tail(actions), np_account)

\* Variant of the account filter in which an absent sourceAccount matches
\* nothing.
RECURSIVE MatchingActions_presentOnly(_, _, _)
MatchingActions_presentOnly(preset_number, actions, np_account) ==
    IF actions = <<>> THEN <<>>
    ELSE LET content_item ==
                 Get(Get(Head(actions), "payload", EmptyDict), "contentItem", EmptyDict)
             preset_account == Get(content_item, "sourceAccount", NoneValue)
             rest == MatchingActions_presentOnly(preset_number, Tail(actions), np_account)
         IN  IF preset_account = np_account /\ np_account # NoneValue
             THEN <<[number |-> int(preset_number), content_item |-> content_item]>> \o rest
             ELSE rest

\* The (int(preset_number), content_item) entries that one preset's actions
\* append to matching_presets, in the order of the actions.
RECURSIVE MatchingActions(_, _, _)
MatchingActions(preset_number, actions, np_account) ==
    IF actions = <<>> THEN <<>>
    ELSE LET content_item ==
                 Get(Get(Head(actions), "payload", EmptyDict), "contentItem", EmptyDict)
             preset_account == Get(content_item, "sourceAccount", NoneValue)
             rest == MatchingActions(preset_number, Tail(actions), np_account)
         IN  IF preset_account = np_account
             THEN <<[number |-> int(preset_number), content_item |-> content_item]>> \o rest
             ELSE rest

\* Variant of the loop over presets.items() that visits the table from its
\* last entry to its first.
RECURSIVE MatchingPresets_lastFirst(_, _)
MatchingPresets_lastFirst(items, np_account) ==
    IF items = <<>> THEN <<>>
    ELSE MatchingPresets_lastFirst(Tail(items), np_account)
         \o MatchingActions(Head(items).key, Get(Head(items).value, "actions", <<>>),
                            np_account)

\* matching_presets after the loop over presets.items().
RECURSIVE MatchingPresets(_, _)
MatchingPresets(items, np_account) ==
    IF items = <<>> THEN <<>>
    ELSE MatchingActions(Head(items).key, Get(Head(items).value, "actions", <<>>),
                         np_account)
         \o MatchingPresets(Tail(items), np_account)

\* Variant of the tie-break that ignores the location.
FirstByLocation_ignored(matching, np_location, fallback) == fallback

\* The loop over matching_presets that returns at the first entry whose
\* location equals np_location, and the fallback after it.
RECURSIVE FirstByLocation(_, _, _)
FirstByLocation(matching, np_location, fallback) ==
    IF matching = <<>> THEN fallback
    ELSE IF Get(Head(matching).content_item, "location", NoneValue) = np_location
         THEN Head(matching).number
         ELSE FirstByLocation(Tail(matching), np_location, fallback)

\* Variant of find_current_preset without the single-match return: the
\* location decides even when one entry matches the account.
find_current_preset_locationDecides(np, pd) ==
    LET np_item == Get(Get(np, "container", EmptyDict), "contentItem", EmptyDict)
        np_account == Get(np_item, "sourceAccount", NoneValue)
        np_location == Get(np_item, "location", NoneValue)
        presets == Get(Get(pd, "presets", EmptyDict), "presets", <<>>)
        matching_presets == MatchingPresets(presets, np_account)
    IN  FirstByLocation(matching_presets, np_location, 0)

\* Variant of find_current_preset that falls back to the first preset of the
\* table when no action matches the account.
find_current_preset_firstKey(np, pd) ==
    LET np_item == Get(Get(np, "container", EmptyDict), "contentItem", EmptyDict)
        np_account == Get(np_item, "sourceAccount", NoneValue)
        np_location == Get(np_item, "location", NoneValue)
        presets == Get(Get(pd, "presets", EmptyDict), "presets", <<>>)
        matching_presets == MatchingPresets(presets, np_account)
    IN  IF matching_presets = <<>>
        THEN IF presets = <<>> THEN 0 ELSE int(presets[1].key)
        ELSE IF Len(matching_presets) = 1 THEN matching_presets[1].number
        ELSE FirstByLocation(matching_presets, np_location, matching_presets[1].number)

find_current_preset(np, pd) ==
    LET np_item == Get(Get(np, "container", EmptyDict), "contentItem", EmptyDict)
        np_account == Get(np_item, "sourceAccount", NoneValue)
        np_location == Get(np_item, "location", NoneValue)
        presets == Get(Get(pd, "presets", EmptyDict), "presets", <<>>)
        matching_presets == MatchingPresets(presets, np_account)
    IN  IF matching_presets = <<>> THEN 0
        ELSE IF Len(matching_presets) = 1 THEN matching_presets[1].number
        ELSE FirstByLocation(matching_presets, np_location, matching_presets[1].number)

\* Content items: each of the keys sourceAccount and location is present
\* with a string value or absent.
ContentItem(account, location) ==
    [k \in (IF account = NoneValue THEN {} ELSE {"sourceAccount"})
            \cup (IF location = NoneValue THEN {} ELSE {"location"})
        |-> IF k = "sourceAccount" THEN account ELSE location]

TableItems == {ContentItem(a, l) : a \in {NoneValue, "A"}, l \in {NoneValue, "X"}}
SnapshotItems ==
    {ContentItem(a, l) : a \in {NoneValue, "A", "B"}, l \in {NoneValue, "X", "Y"}}

\* Snapshots without a container, with a container without a content item,
\* and with a content item.
Snapshots ==
    {EmptyDict, [container |-> EmptyDict]}
        \cup {[container |-> [contentItem |-> i]] : i \in SnapshotItems}

TableActions == {[payload |-> [contentItem |-> i]] : i \in TableItems}
ActionSeqs == UNION {[1..n -> TableActions] : n \in 0..MaxActions}

\* The keys of a table in insertion order: distinct decimal strings, in any
\* order.
PresetKeys == {Digits[i] : i \in 1..MaxPresets}
KeySeqs ==
    {ks \in UNION {[1..n -> PresetKeys] : n \in 0..MaxPresets} :
        \A i, j \in DOMAIN ks : ks[i] = ks[j] => i = j}

\* The table with keys ks whose i-th preset has the actions of flat between
\* the cuts i-1 and i.
Table(ks, flat, cut) ==
    [i \in DOMAIN ks |->
        [key |-> ks[i],
         value |-> [actions |->
                      SubSeq(flat, (IF i = 1 THEN 0 ELSE cut[i - 1]) + 1, cut[i])]]]

svars == <<speaker_instance, bose_auth, preset, client, nextClient, req, started,
           refreshFailed, disconnected>>

\* No session: the module globals as at import.
NoSession ==
    /\ speaker_instance = None
    /\ bose_auth = "none"
    /\ preset = None
    /\ client = [c \in Clients |-> "unused"]
    /\ nextClient = 1
    /\ req = [r \in Reqs |-> IdleReq]
    /\ started = 0
    /\ refreshFailed = FALSE
    /\ disconnected = FALSE

InitMatcher ==
    /\ NoSession
    /\ now_playing \in Snapshots
    /\ \/ presets_data \in {EmptyDict, [presets |-> EmptyDict]}
       \/ \E ks \in KeySeqs, flat \in ActionSeqs :
            \E cut \in [DOMAIN ks -> 0..Len(flat)] :
               /\ \A i \in DOMAIN ks : i > 1 => cut[i - 1] <= cut[i]
               /\ IF ks = <<>> THEN flat = <<>> ELSE cut[Len(ks)] = Len(flat)
               /\ presets_data = [presets |-> [presets |-> Table(ks, flat, cut)]]
    /\ power = EmptyDict
    /\ presetNo = 1
    /\ returned = <<>>

\* One call of find_current_preset on the arguments.
call_find_current_preset ==
    /\ Len(returned) < MaxCalls
    /\ returned' = Append(returned, find_current_preset(now_playing, presets_data))
    /\ UNCHANGED <<now_playing, presets_data, power, presetNo>>
    /\ UNCHANGED svars

NextMatcher == call_find_current_preset

SpecMatcher == InitMatcher /\ [][NextMatcher]_vars

TypeOKMatcher ==
    /\ now_playing \in Snapshots
    /\ returned \in UNION {[1..n -> 0..MaxPresets] : n \in 0..MaxCalls}

\* The arguments as the statements about find_current_preset read them.
TableOf(pd) == Get(Get(pd, "presets", EmptyDict), "presets", <<>>)
SnapshotItem == Get(Get(now_playing, "container", EmptyDict), "contentItem", EmptyDict)
ItemsOf(entry) ==
    {Get(Get(entry.value.actions[n], "payload", EmptyDict), "contentItem", EmptyDict) :
        n \in DOMAIN entry.value.actions}
\* The item and the snapshot have the same sourceAccount (the same location):
\* the values that .get returns are equal, None for an absent key included.
SameAccount(item) ==
    Get(item, "sourceAccount", NoneValue) = Get(SnapshotItem, "sourceAccount", NoneValue)
SameLocation(item) ==
    Get(item, "location", NoneValue) = Get(SnapshotItem, "location", NoneValue)
\* Positions in the table of the presets that share the snapshot's account,
\* and of those among them that also share its location.
Sharing ==
    {i \in DOMAIN TableOf(presets_data) :
        \E item \in ItemsOf(TableOf(presets_data)[i]) : SameAccount(item)}
SharingLocation ==
    {i \in DOMAIN TableOf(presets_data) :
        \E item \in ItemsOf(TableOf(presets_data)[i]) :
            SameAccount(item) /\ SameLocation(item)}
First(S) == CHOOSE i \in S : \A j \in S : i <= j
NumberAt(i) == int(TableOf(presets_data)[i].key)

\* C14: when no preset action's content item has the snapshot's
\* sourceAccount, find_current_preset returns 0.
C14_NoMatchReturnsZero ==
    \A n \in DOMAIN returned : Sharing = {} => returned[n] = 0

\* The snapshot's account is "B", a preset has account "A", the result is 0.
C14_Witness ==
    /\ returned # <<>> /\ returned[1] = 0
    /\ Get(SnapshotItem, "sourceAccount", NoneValue) = "B"
    /\ \E i \in DOMAIN TableOf(presets_data) :
         \E item \in ItemsOf(TableOf(presets_data)[i]) :
            Get(item, "sourceAccount", NoneValue) = "A"

\* C15: when exactly one preset shares the snapshot's account,
\* find_current_preset returns that preset's number, whatever the locations
\* and however many of its actions carry the account.
C15_SingleAccountMatch ==
    \A n \in DOMAIN returned :
        Cardinality(Sharing) = 1 => returned[n] = NumberAt(First(Sharing))

\* One preset has two actions with the snapshot's account and no location;
\* the other preset has the snapshot's location and another account.
C15_Witness ==
    /\ returned # <<>>
    /\ Len(TableOf(presets_data)) = 2
    /\ \E i, j \in DOMAIN TableOf(presets_data) :
         /\ Sharing = {i} /\ j # i
         /\ returned[1] = NumberAt(i)
         /\ Len(TableOf(presets_data)[i].value.actions) = 2
         /\ \A item \in ItemsOf(TableOf(presets_data)[i]) :
              SameAccount(item) /\ ~SameLocation(item)
         /\ \E item \in ItemsOf(TableOf(presets_data)[j]) : SameLocation(item)
    /\ "location" \in DOMAIN SnapshotItem

\* C16: when more than one preset shares the snapshot's account and some of
\* them also have the snapshot's location, find_current_preset returns the
\* number of the first of these in table order (the only one, when there is
\* exactly one).
C16_LocationBreaksTie ==
    \A n \in DOMAIN returned :
        (Cardinality(Sharing) > 1 /\ SharingLocation # {})
            => returned[n] = NumberAt(First(SharingLocation))

\* Table {"1": account A; "2": account A, location X}, snapshot account A,
\* location X: the result is 2.
C16_Witness ==
    /\ returned # <<>> /\ returned[1] = 2
    /\ SnapshotItem = ContentItem("A", "X")
    /\ TableOf(presets_data) =
         <<[key |-> "1", value |-> [actions |->
                <<[payload |-> [contentItem |-> ContentItem("A", NoneValue)]]>>]],
           [key |-> "2", value |-> [actions |->
                <<[payload |-> [contentItem |-> ContentItem("A", "X")]]>>]]>>

\* C17: when more than one preset shares the snapshot's account and none of
\* them has the snapshot's location, find_current_preset returns the number
\* of the first of them in table order, and every call on the same arguments
\* returns the same number.
C17_FirstAccountMatch ==
    /\ \A n \in DOMAIN returned :
         (Cardinality(Sharing) > 1 /\ SharingLocation = {})
             => returned[n] = NumberAt(First(Sharing))
    /\ \A n, m \in DOMAIN returned : returned[n] = returned[m]

\* The table lists preset "2" before preset "1", both share the account and
\* neither has the snapshot's location: two calls both return 2.
C17_Witness ==
    /\ Len(returned) = 2 /\ returned[1] = 2 /\ returned[2] = 2
    /\ Sharing = {1, 2} /\ SharingLocation = {}
    /\ TableOf(presets_data)[1].key = "2" /\ TableOf(presets_data)[2].key = "1"
    /\ "location" \in DOMAIN SnapshotItem

(***************************************************************************)
(* get_playback_status after its two awaited calls: the computation of the *)
(* response from the power record, the now-playing snapshot and the preset *)
(* cache.  A str that is upper-cased is the sequence of its characters.    *)
(* Python values of a position that can hold several types are pairs       *)
(* <<type, value>>.                                                        *)
(***************************************************************************)

\* The value None where a dict is expected (the preset cache before any
\* get_product_settings() has returned).
NoneObject == [NoneType |-> "None"]
PyNone == <<"NoneType", "None">>
PyInt(n) == <<"int", n>>
PyStr(s) == <<"str", s>>

\* bool(d.get(k)) for a dict or str value: the key is present and the value
\* is not empty.
GetTruthy(d, k) == k \in DOMAIN d /\ DOMAIN d[k] # {}

LowerCase == <<"a", "b", "c", "d", "e", "f", "g", "h", "i", "j", "k", "l", "m", "n",
               "o", "p", "q", "r", "s", "t", "u", "v", "w", "x", "y", "z">>
UpperCase == <<"A", "B", "C", "D", "E", "F", "G", "H", "I", "J", "K", "L", "M", "N",
               "O", "P", "Q", "R", "S", "T", "U", "V", "W", "X", "Y", "Z">>
\* Variant of upper() that leaves the letter case as it is.
upper_unchanged(s) == s

\* s.upper()
upper(s) ==
    [i \in DOMAIN s |->
        IF \E n \in DOMAIN LowerCase : LowerCase[n] = s[i]
        THEN UpperCase[CHOOSE n \in DOMAIN LowerCase : LowerCase[n] = s[i]]
        ELSE s[i]]

\* The dict literal mapping, entry by entry.
mapping ==
    <<[name |-> <<"I", "N", "V", "A", "L", "I", "D", "_", "S", "O", "U", "R", "C", "E">>,
       code |-> 0],
       [name |-> <<"A", "V", "S", "S", "I", "P", "S", "O", "U", "R", "C", "E">>,
       code |-> 1],
       [name |-> <<"A", "I", "R", "P", "L", "A", "Y">>,
       code |-> 2],
       [name |-> <<"C", "H", "R", "O", "M", "E", "C", "A", "S", "T", "B", "U", "I", "L", "T", "I", "N">>,
       code |-> 3],
       [name |-> <<"G", "V", "A">>,
       code |-> 4],
       [name |-> <<"S", "P", "O", "T", "I", "F", "Y">>,
       code |-> 5],
       [name |-> <<"G", "R", "O", "U", "P", "I", "N", "G">>,
       code |-> 6],
       [name |-> <<"A", "L", "E", "X", "A">>,
       code |-> 7],
       [name |-> <<"Q", "P", "L", "A", "Y">>,
       code |-> 8],
       [name |-> <<"U", "P", "N", "P">>,
       code |-> 9],
       [name |-> <<"P", "R", "O", "D", "U", "C", "T">>,
       code |-> 10],
       [name |-> <<"S", "E", "T", "U", "P">>,
       code |-> 11],
       [name |-> <<"B", "L", "U", "E", "T", "O", "O", "T", "H">>,
       code |-> 12],
       [name |-> <<"T", "U", "N", "E", "I", "N">>,
       code |-> 13]>>

\* mapping.get(key, default)
mapping_get(key, default) ==
    IF \E n \in DOMAIN mapping : mapping[n].name = key
    THEN mapping[CHOOSE n \in DOMAIN mapping : mapping[n].name = key].code
    ELSE default

\* Variant of the response computation that runs the matcher whether or not
\* the snapshot's status is PLAY.
playback_status_matchesAlways(power_record, playback, preset_cache) ==
    IF preset_cache = NoneObject
    THEN [raises |-> "AttributeError"]
    ELSE [power_state |-> IF "power" \in DOMAIN power_record
                          THEN PyStr(power_record["power"]) ELSE PyNone,
          playback |-> IF GetTruthy(playback, "state")
                          /\ Get(playback["state"], "status", NoneValue) = "PLAY"
                       THEN 1 ELSE 0,
          source |-> IF GetTruthy(playback, "source")
                        /\ GetTruthy(playback["source"], "sourceDisplayName")
                     THEN PyInt(mapping_get(
                              upper(playback["source"]["sourceDisplayName"]), 0))
                     ELSE PyStr(<<>>),
          preset_number |-> find_current_preset(playback, preset_cache)]

\* The response of get_playback_status, or the exception it raises:
\* find_current_preset calls presets_data.get, which raises AttributeError
\* when the cache is None.
playback_status(power_record, playback, preset_cache) ==
    LET playing == /\ GetTruthy(playback, "state")
                   /\ Get(playback["state"], "status", NoneValue) = "PLAY"
    IN  IF playing /\ preset_cache = NoneObject
        THEN [raises |-> "AttributeError"]
        ELSE [power_state |-> IF "power" \in DOMAIN power_record
                              THEN PyStr(power_record["power"]) ELSE PyNone,
              playback |-> IF playing THEN 1 ELSE 0,
              source |-> IF GetTruthy(playback, "source")
                            /\ GetTruthy(playback["source"], "sourceDisplayName")
                         THEN PyInt(mapping_get(
                                  upper(playback["source"]["sourceDisplayName"]), 0))
                         ELSE PyStr(<<>>),
              preset_number |-> IF playing
                                THEN find_current_preset(playback, preset_cache)
                                ELSE 0]

\* Display names as the device may report them: each name of the mapping in
\* upper case, in lower case and capitalized, a name outside the mapping, and
\* the empty string.
lower(s) ==
    [i \in DOMAIN s |->
        IF \E n \in DOMAIN UpperCase : UpperCase[n] = s[i]
        THEN LowerCase[CHOOSE n \in DOMAIN UpperCase : UpperCase[n] = s[i]]
        ELSE s[i]]
Capitalized(s) == [i \in DOMAIN s |-> IF i = 1 THEN s[i] ELSE lower(s)[i]]
DisplayNames ==
    {mapping[n].name : n \in DOMAIN mapping}
        \cup {lower(mapping[n].name) : n \in DOMAIN mapping}
        \cup {Capitalized(mapping[n].name) : n \in DOMAIN mapping}
        \cup {<<"R", "a", "d", "i", "o">>, <<>>}

\* The parts of a snapshot: each of state, source and container is absent,
\* an empty dict, a dict without the field that is read, or a dict with it.
StateParts ==
    {EmptyDict, [state |-> EmptyDict], [state |-> [timeIntoTrack |-> "0"]],
     [state |-> [status |-> "PLAY"]], [state |-> [status |-> "PAUSED"]],
     [state |-> [status |-> "play"]]}
SourceParts ==
    {EmptyDict, [source |-> EmptyDict], [source |-> [sourceID |-> "x"]]}
        \cup {[source |-> [sourceDisplayName |-> d]] : d \in DisplayNames}
ContainerParts ==
    {EmptyDict}
        \cup {[container |-> [contentItem |-> ContentItem(a, NoneValue)]] : a \in {"A", "B"}}
Merge(d1, d2) ==
    [k \in DOMAIN d1 \cup DOMAIN d2 |-> IF k \in DOMAIN d1 THEN d1[k] ELSE d2[k]]

PowerRecords == {EmptyDict, [power |-> "ON"], [power |-> "OFF"]}

\* The preset cache: None, a document without presets, or a table whose
\* presets each have one action with account "A".
Caches ==
    {NoneObject, EmptyDict}
        \cup {[presets |-> [presets |->
                 Table(ks,
                       [n \in DOMAIN ks |->
                           [payload |-> [contentItem |-> ContentItem("A", NoneValue)]]],
                       [i \in DOMAIN ks |-> i])]] : ks \in KeySeqs}

InitStatus ==
    /\ NoSession
    /\ \E st \in StateParts, so \in SourceParts, co \in ContainerParts :
         now_playing = Merge(Merge(st, so), co)
    /\ presets_data \in Caches
    /\ power \in PowerRecords
    /\ presetNo = 1
    /\ returned = <<>>

\* One computation of the response on the arguments.
call_playback_status ==
    /\ Len(returned) < MaxCalls
    /\ returned' = Append(returned, playback_status(power, now_playing, presets_data))
    /\ UNCHANGED <<now_playing, presets_data, power, presetNo>>
    /\ UNCHANGED svars

NextStatus == call_playback_status

SpecStatus == InitStatus /\ [][NextStatus]_vars

TypeOKStatus ==
    /\ power \in PowerRecords
    /\ presets_data \in Caches
    /\ \A n \in DOMAIN returned :
         \/ DOMAIN returned[n] = {"raises"}
         \/ /\ DOMAIN returned[n] = {"power_state", "playback", "source", "preset_number"}
            /\ returned[n].playback \in {0, 1}
            /\ returned[n].preset_number \in 0..MaxPresets

\* The snapshot as the statements about the response read it.
HasStatus ==
    "state" \in DOMAIN now_playing /\ "status" \in DOMAIN now_playing["state"]
HasDisplayName ==
    "source" \in DOMAIN now_playing
        /\ "sourceDisplayName" \in DOMAIN now_playing["source"]
DisplayName == now_playing["source"]["sourceDisplayName"]
Raised(out) == "raises" \in DOMAIN out

\* C18: the response computation never raises, and a part that is absent
\* from its inputs takes its default: power_state false, playback 0,
\* source the integer 0, preset_number 0.
C18_TotalWithDefaults ==
    \A n \in DOMAIN returned :
        /\ ~Raised(returned[n])
        /\ ~HasStatus => returned[n].playback = 0 /\ returned[n].preset_number = 0
        /\ ~HasDisplayName => returned[n].source = PyInt(0)
        /\ "power" \notin DOMAIN power => returned[n].power_state = <<"bool", FALSE>>

\* C19: in a response, playback is 1 exactly when the snapshot's
\* state.status is the literal PLAY and 0 otherwise, and preset_number is the
\* result of find_current_preset on the snapshot and the cache when playback
\* is 1 and 0 when playback is 0.
C19_PlaybackAndPreset ==
    \A n \in DOMAIN returned :
        ~Raised(returned[n]) =>
            /\ returned[n].playback \in {0, 1}
            /\ returned[n].playback = 1
                 <=> (HasStatus /\ now_playing["state"]["status"] = "PLAY")
            /\ returned[n].preset_number =
                 IF returned[n].playback = 1
                 THEN find_current_preset(now_playing, presets_data)
                 ELSE 0

\* The snapshot's account matches preset "2" of the cache: playing, the
\* response names preset 2.
C19_Witness ==
    /\ returned # <<>> /\ ~Raised(returned[1])
    /\ returned[1].playback = 1 /\ returned[1].preset_number = 2
    /\ now_playing["state"]["status"] = "PLAY"

\* The code of a display name, ignoring letter case: its position in the
\* enumeration INVALID_SOURCE = 0 ... TUNEIN = 13, or 0 for any other name.
LowerNames == [n \in DOMAIN mapping |-> lower(mapping[n].name)]
CodeOf(name) ==
    LET l == lower(name)
    IN  IF \E n \in DOMAIN LowerNames : LowerNames[n] = l
        THEN (CHOOSE n \in DOMAIN LowerNames : LowerNames[n] = l) - 1
        ELSE 0
EnumerationAsListed ==
    /\ Len(mapping) = 14
    /\ CodeOf(<<"S", "p", "o", "t", "i", "f", "y">>) = 5
    /\ CodeOf(<<"T", "U", "N", "E", "I", "N">>) = 13

C21_PresetWrittenOnlyByInitialize ==
    [][/\ preset' # preset
            => \E r \in Reqs :
                 /\ req[r].pc = "init_settings" /\ req'[r].fetch = "ok"
                 /\ preset' = req[r].target
       /\ \A r \in Reqs :
            ((DeviceArrives(r) \/ DisconnectArrives(r)
                 \/ req[r].ep \in DeviceEndpoints \cup {"disconnect_speaker"})
                /\ req'[r] # req[r])
              => preset' = preset]_vars

\* A device request and a disconnect have both completed after an
\* initialize fetched the settings of client 1: the session is gone and the
\* cache still holds those settings.
C21_Witness ==
    \E r, q \in Reqs :
        /\ req[r].pc = "done" /\ req[r].ep = "disconnect_speaker"
        /\ req[r].resp = "disconnected"
        /\ req[q].pc = "done" /\ req[q].ep \in SingleCall /\ req[q].resp = "ok"
        /\ speaker_instance = None /\ preset = 1

\* C23: an initialize that resumes after connect() fetches the product
\* settings from the client that this request constructed, and an initialize
\* that returns success returns the device id of that same client.
C23_InitializeUsesOwnClient ==
    [][\A r \in Reqs :
        /\ (req[r].pc = "init_connect" /\ req'[r].pc = "init_settings")
             => req'[r].target = req[r].mine
        /\ (req[r].pc = "init_settings" /\ req'[r].resp = "connected")
             => /\ speaker_instance = req[r].mine
                /\ preset' = req[r].mine]_vars

(***************************************************************************)
(* request_playback_preset after check_speaker_initialized: the lookup of  *)
(* the descriptor in the preset cache and the one awaited client call.     *)
(***************************************************************************)

\* Preset numbers accepted by PresetRequest (ge=1, le=6).
PresetNumbers == 1..6

\* str(n) for a preset number.
str(n) == Digits[n]

\* presets.get(key, None) on the table.
table_get(items, key) ==
    IF \E i \in DOMAIN items : items[i].key = key
    THEN items[CHOOSE i \in DOMAIN items : items[i].key = key].value
    ELSE NoneObject

\* What the awaited client call does: it raises, or returns a result.
ClientOutcomes == {"raises", "result-a", "result-b"}

\* The calls the handler issued and what it answered.  preset.get raises
\* AttributeError when the cache is None, before any call is issued.
request_playback_preset(number, preset_cache, outcome) ==
    IF preset_cache = NoneObject
    THEN [calls |-> <<>>, raises |-> "AttributeError", status |-> "none",
          result |-> "none"]
    ELSE LET presets == Get(Get(preset_cache, "presets", EmptyDict), "presets", <<>>)
             payload == table_get(presets, str(number))
             call == [method |-> "request_playback_preset", payload |-> payload,
                      initiator |-> 1, outcome |-> outcome]
         IN  IF outcome = "raises"
             THEN [calls |-> <<call>>, raises |-> "DeviceError", status |-> "none",
                   result |-> "none"]
             ELSE [calls |-> <<call>>, raises |-> "none", status |-> "success",
                   result |-> outcome]

InitPreset ==
    /\ NoSession
    /\ now_playing = EmptyDict
    /\ presets_data \in Caches \cup {[presets |-> EmptyDict]}
    /\ power = EmptyDict
    /\ presetNo \in PresetNumbers
    /\ returned = <<>>

\* One POST /playback/preset on the arguments.
call_request_playback_preset ==
    /\ Len(returned) < MaxCalls
    /\ \E outcome \in ClientOutcomes :
         returned' = Append(returned,
                            request_playback_preset(presetNo, presets_data, outcome))
    /\ UNCHANGED <<now_playing, presets_data, power, presetNo>>
    /\ UNCHANGED svars

NextPreset == call_request_playback_preset

SpecPreset == InitPreset /\ [][NextPreset]_vars

TypeOKPreset ==
    /\ presetNo \in PresetNumbers
    /\ \A n \in DOMAIN returned :
         /\ Len(returned[n].calls) <= 1
         /\ returned[n].status \in {"none", "success"}

\* The descriptor the cache stores under the string form of the preset
\* number, None when it stores none.
Descriptor ==
    LET table == TableOf(presets_data)
    IN  IF \E i \in DOMAIN table : int(table[i].key) = presetNo
        THEN table[CHOOSE i \in DOMAIN table : int(table[i].key) = presetNo].value
        ELSE NoneObject

\* C22: POST /playback/preset with a number in 1..6 issues exactly one
\* request_playback_preset call, with the descriptor the cache stores under
\* the number's string key and initiator id 1, and answers success with the
\* client's result when the client returns one, whatever the cache holds.
C22_PresetRequestIssuesOneCall ==
    \A n \in DOMAIN returned :
        /\ Len(returned[n].calls) = 1
        /\ returned[n].calls[1].method = "request_playback_preset"
        /\ returned[n].calls[1].payload = Descriptor
        /\ returned[n].calls[1].initiator = 1
        /\ returned[n].calls[1].outcome # "raises"
             => /\ returned[n].status = "success"
                /\ returned[n].result = returned[n].calls[1].outcome

\* C24: every call of find_current_preset returns 0 or the integer form of a
\* key of the table whose preset has an action with the snapshot's
\* sourceAccount, and leaves the snapshot and the table as they were.
C24_ResultIsMatchingKey ==
    [][/\ now_playing' = now_playing
       /\ presets_data' = presets_data
       /\ returned' # returned
            => \/ returned'[Len(returned')] = 0
               \/ \E i \in DOMAIN TableOf(presets_data) :
                    /\ NumberAt(i) = returned'[Len(returned')]
                    /\ \E item \in ItemsOf(TableOf(presets_data)[i]) :
                         SameAccount(item)]_vars

\* The table lists preset "2", which has the snapshot's account "A", before
\* preset "1", which has not: the result is 2.
C24_Witness ==
    /\ returned # <<>> /\ returned[1] = 2
    /\ Get(SnapshotItem, "sourceAccount", NoneValue) = "A"
    /\ Len(TableOf(presets_data)) = 2
    /\ TableOf(presets_data)[1].key = "2"
    /\ Sharing = {1}
    /\ ItemsOf(TableOf(presets_data)[2]) # {}

\* Positions in the table of the presets with an action whose content item
\* has no sourceAccount, and of those among them whose such item has the
\* snapshot's location.
Lacking ==
    {i \in DOMAIN TableOf(presets_data) :
        \E item \in ItemsOf(TableOf(presets_data)[i]) : "sourceAccount" \notin DOMAIN item}
LackingLocation ==
    {i \in DOMAIN TableOf(presets_data) :
        \E item \in ItemsOf(TableOf(presets_data)[i]) :
            "sourceAccount" \notin DOMAIN item /\ SameLocation(item)}

\* C25: for a snapshot without a sourceAccount, find_current_preset returns
\* 0 exactly when every preset action's content item has a sourceAccount;
\* otherwise it returns the first preset in table order that has an item
\* without sourceAccount and with the snapshot's location, or, when there is
\* none, the first preset that has an item without sourceAccount.
C25_AbsentMatchesAbsent ==
    \A n \in DOMAIN returned :
        "sourceAccount" \notin DOMAIN SnapshotItem
            => /\ returned[n] = 0 <=> Lacking = {}
               /\ Lacking # {}
                    => returned[n] =
                         NumberAt(First(IF LackingLocation # {}
                                        THEN LackingLocation ELSE Lacking))

\* The snapshot has no container; preset "1" has account "A" and preset "2"
\* has an action without sourceAccount: the result is 2.
C25_Witness ==
    /\ returned # <<>> /\ returned[1] = 2
    /\ now_playing = EmptyDict
    /\ Len(TableOf(presets_data)) = 2
    /\ TableOf(presets_data)[1].key = "1" /\ TableOf(presets_data)[2].key = "2"
    /\ Lacking = {2}
    /\ ItemsOf(TableOf(presets_data)[1]) # {}
====
